---- MODULE Spec2Model ----
(***************************************************************************)
(* A model of the StepWizard component of ML Builder (frontend).           *)
(*                                                                         *)
(* The nine React state cells of the component are the variables; every    *)
(* event handler the rendered page can fire is one action, guarded by the  *)
(* condition under which its control is rendered and enabled.  The two     *)
(* fetch calls are messages in flight: a request is issued by the handler, *)
(* the server (or the network) answers it, and the continuation after the  *)
(* await consumes the answer.  The state updates of one continuation run   *)
(* in consecutive microtasks, so no user event separates them: a           *)
(* continuation is one action.                                             *)
(*                                                                         *)
(* Conventions: a JavaScript null object is Null; an optional key or a     *)
(* nullable string is None or Some(v); a decimal number is an integer      *)
(* number of hundredths (0.2 is 20, 1.0 is 100).                           *)
(***************************************************************************)
EXTENDS Integers, Sequences, FiniteSets, TLC

VARIABLES
    currentStep,        \* useState(1)
    preprocessingSteps, \* useState<PipelineStep[]>([])
    testSize,           \* useState<number>(0.2), in hundredths
    selectedModel,      \* useState<PipelineStep | null>(null)
    isRunning,          \* useState(false)
    results,            \* useState<PipelineResult | null>(null)
    datasetMetadata,    \* useState<DatasetMetadata | null>(null)
    uploadError,        \* useState<string | null>(null)
    isUploading,        \* useState(false)
    uploads,            \* /api/upload requests in flight
    runs,               \* /api/pipeline/run requests in flight
    downloads,          \* /api/download windows opened and not yet served
    sliderMoved         \* history: the test-size slider has fired onChange

vars == <<currentStep, preprocessingSteps, testSize, selectedModel, isRunning,
          results, datasetMetadata, uploadError, isUploading, uploads, runs,
          downloads, sliderMoved>>

(***************************************************************************)
(* Bounds of the model.                                                    *)
(***************************************************************************)
MaxSteps == 2       \* longest preprocessing list explored
MaxFI == 11         \* longest feature_importance list a response carries
MaxLabels == 9      \* most correlation labels a dataset carries
MaxDownloads == 1   \* most download windows waiting for the server

(***************************************************************************)
(* Values.                                                                 *)
(***************************************************************************)
Null == [kind |-> "null"]
None == <<>>
Some(v) == <<v>>

\* JavaScript truthiness of an optional string: defined and not empty.
TruthyString(o) == o # None /\ o[1] # ""

Min(a, b) == IF a < b THEN a ELSE b

PreprocessingTypes == {"standard_scaler", "min_max_scaler", "drop_nulls"}
ModelTypes == {"logistic_regression", "decision_tree_classifier"}

\* STEP_TEMPLATES[type].defaultParams
DefaultParams(type) ==
    CASE type = "standard_scaler" -> <<>>
      [] type = "min_max_scaler" -> [feature_range |-> "0,1"]
      [] type = "drop_nulls" -> [axis |-> 0]
      [] type = "train_test_split" -> [test_size |-> 20]
      [] type = "logistic_regression" -> [C |-> 100]
      [] type = "decision_tree_classifier" -> [max_depth |-> 5]

WizardStepCount == 5    \* WIZARD_STEPS.length

\* Math.random().toString(36).substr(2, 9): nothing keeps two draws apart.
RandomIds == {"k3j9x0q1z", "p7m2c8w4b"}

\* The values the range input (min 0.1, max 0.9, step 0.05) reports; its
\* two ends are explored.
SliderMin == 10
SliderMax == 90
\* Mutant: the slider's max attribute is 1.0.
SliderValuesUpToOne == {SliderMin, 100}

SliderValues == {SliderMin, SliderMax}

DefaultTestSize == 20

(***************************************************************************)
(* What the server and the network may answer.                             *)
(***************************************************************************)
HeatmapLimit == 8       \* labels.length > 8
DisplayLimit == 10      \* feature_importance.slice(0, 10)

\* A correlation summary of n labels: the labels and an n x n matrix with a
\* unit diagonal, in hundredths.
Correlations(n) ==
    [labels |-> [i \in 1..n |-> i],
     data |-> [i \in 1..n |-> [j \in 1..n |-> IF i = j THEN 100 ELSE 0]]]

\* DatasetMetadata, reduced to the keys the wizard's logic reads.
DatasetBodies ==
    {[filename |-> "iris.csv", correlations |-> None],
     [filename |-> "", correlations |-> Some(Correlations(2))]}
    \cup {[filename |-> "iris.csv", correlations |-> Some(Correlations(n))] :
            n \in HeatmapLimit..MaxLabels}

Files == {"iris.csv", "notes.txt"}

\* The answers to an upload: the fetch rejects, or it resolves with a status
\* (ok or not) and a body that parses as JSON (Some) or does not (None).
UploadAnswers ==
    {[kind |-> "rejected", ok |-> FALSE, body |-> None]}
    \cup {[kind |-> "response", ok |-> TRUE, body |-> b] :
            b \in {None} \cup {Some(d) : d \in DatasetBodies}}
    \cup {[kind |-> "response", ok |-> FALSE, body |-> b] :
            b \in {None, Some([detail |-> None]), Some([detail |-> Some("")]),
                   Some([detail |-> Some("Unsupported file format")])}}

\* A feature_importance list of n items; the largest importance is the last
\* item's when n exceeds the display limit, the first item's otherwise.
FeatureImportance(n) ==
    [i \in 1..n |->
        [feature |-> i,
         importance |-> IF n > DisplayLimit /\ i = n THEN 99 ELSE 50 - i]]

\* Accuracy strings are sequences of one-character strings, so that
\* String.replace and parseFloat can be computed on them.
DigitChars == <<"0", "1", "2", "3", "4", "5", "6", "7", "8", "9">>
IsDigit(c) == \E d \in 1..Len(DigitChars) : DigitChars[d] = c
DigitValue(c) == (CHOOSE d \in 1..Len(DigitChars) : DigitChars[d] = c) - 1

HighAccuracy == <<"9", "5", ".", "0", "%">>     \* "95.0%"
LowAccuracy == <<"6", "8", ".", "0", "%">>      \* "68.0%"

FILengths == {0, DisplayLimit} \cup (DisplayLimit + 1)..MaxFI

FullMetrics(n) ==
    [Accuracy |-> HighAccuracy, train_samples |-> 120, test_samples |-> 30,
     feature_importance |-> FeatureImportance(n),
     confusion_matrix |-> <<<<15, 0>>, <<1, 14>>>>]

NoMetrics == <<>>

\* PipelineResult bodies the server may send with an ok status.
ResultBodies ==
    {[success |-> TRUE, message |-> "Pipeline executed successfully",
      metrics |-> FullMetrics(n), logs |-> <<"Split data", "Training completed">>,
      model_path |-> Some("models/model_1.pkl")] : n \in FILengths}
    \cup {[success |-> TRUE, message |-> "Pipeline executed successfully",
           metrics |-> [Accuracy |-> LowAccuracy], logs |-> <<"Training completed">>,
           model_path |-> None],
          [success |-> TRUE, message |-> "Pipeline executed successfully",
           metrics |-> [Accuracy |-> LowAccuracy,
                        confusion_matrix |-> <<<<15, 0>>, <<1, 14>>>>],
           logs |-> <<"Training completed">>, model_path |-> Some("")],
          [success |-> TRUE, message |-> "Pipeline executed successfully",
           metrics |-> [Accuracy |-> LowAccuracy,
                        feature_importance |-> FeatureImportance(3)],
           logs |-> <<"Training completed">>,
           model_path |-> Some("models/model_1.pkl")]}
    \cup {[success |-> FALSE, message |-> "Validation failed",
           metrics |-> NoMetrics, logs |-> <<"Error: unknown step type">>,
           model_path |-> p] : p \in {None, Some("models/model_0.pkl")}}

\* The statuses of the responses that are not ok
ErrorStatuses == {500}

RunAnswers ==
    {[kind |-> "rejected", ok |-> FALSE, status |-> 0, body |-> None],
     [kind |-> "response", ok |-> TRUE, status |-> 200, body |-> None]}
    \cup {[kind |-> "response", ok |-> FALSE, status |-> st, body |-> None] :
            st \in ErrorStatuses}
    \cup {[kind |-> "response", ok |-> TRUE, status |-> 200, body |-> Some(r)] :
            r \in ResultBodies}

Pending == [kind |-> "pending"]

(***************************************************************************)
(* Error messages.  String concatenation is tabulated over the messages    *)
(* the model produces.                                                     *)
(***************************************************************************)
FetchRejectedMessage == "Failed to fetch"           \* TypeError of fetch
JsonRejectedMessage == "Unexpected end of JSON input"   \* SyntaxError of json()

\* `Server status: ${res.status}`
ServerStatusMessage(status) ==
    CASE status = 500 -> "Server status: 500"
      [] status = 404 -> "Server status: 404"
      [] OTHER -> "Server status: ?"

\* `Error: ${error.message}`
ErrorLogLine(message) ==
    CASE message = "Failed to fetch" -> "Error: Failed to fetch"
      [] message = "Unexpected end of JSON input" -> "Error: Unexpected end of JSON input"
      [] message = "Server status: 500" -> "Error: Server status: 500"
      [] message = "Server status: 404" -> "Error: Server status: 404"
      [] OTHER -> "Error: ?"

(***************************************************************************)
(* The rendered page: which controls exist and are enabled, and what the   *)
(* results and data steps show.                                            *)
(***************************************************************************)
\* Mutant: Back stays enabled while a run is in flight.
BackDisabledOnFirstStepOnly == currentStep = 1

\* Back: disabled={currentStep === 1 || isRunning}
BackDisabled == currentStep = 1 \/ isRunning

\* Next / Run Training: rendered when currentStep < 5
NextShown == currentStep < 5

\* Mutant: Next is enabled on the data step before a dataset is loaded.
NextDisabledIgnoresDataset ==
    \/ isRunning
    \/ (currentStep = 4 /\ selectedModel = Null)

\* Mutant: Run Training is enabled before a model is selected.
NextDisabledIgnoresModel ==
    \/ isRunning
    \/ (currentStep = 1 /\ datasetMetadata = Null)

\* disabled={isRunning || (currentStep === 1 && !datasetMetadata)
\*           || (currentStep === 4 && !selectedModel)}
NextDisabled ==
    \/ isRunning
    \/ (currentStep = 1 /\ datasetMetadata = Null)
    \/ (currentStep = 4 /\ selectedModel = Null)

\* Start Over: rendered when currentStep === 5
StartOverShown == currentStep = 5

\* The upload zone: step 1, no dataset; its click opens the file dialog
\* unless an upload is running.
UploadZoneShown == currentStep = 1 /\ datasetMetadata = Null
UploadZoneActive == UploadZoneShown /\ ~isUploading

\* The Change button: step 1, a dataset is loaded.
ChangeShown == currentStep = 1 /\ datasetMetadata # Null

\* The body of the results step: isRunning ? spinner : results && (...)
ResultShown == currentStep = 5 /\ ~isRunning /\ results # Null

\* Mutant: the success branch is taken only when an artifact came back.
SuccessShownNeedsArtifact ==
    ResultShown /\ results.success /\ TruthyString(results.model_path)

\* {results.success ? (success sections) : (failure box)}
SuccessShown == ResultShown /\ results.success

\* The failure box showing results.message: the other branch
FailureMessageShown == ResultShown /\ ~SuccessShown

\* The logs console lists results.logs for either kind of result.
LogsShown == IF ResultShown THEN results.logs ELSE <<>>

\* Mutant: the download button is rendered outside the success branch.
DownloadShownForAnyResult == ResultShown /\ TruthyString(results.model_path)

\* {results.model_path && <button onClick={downloadModel}>}
DownloadShown == SuccessShown /\ TruthyString(results.model_path)

HasKey(m, k) == k \in DOMAIN m

\* {results.metrics.feature_importance && (...)}
FeatureImportanceShown ==
    SuccessShown /\ HasKey(results.metrics, "feature_importance")

\* {results.metrics.confusion_matrix && (...)}
ConfusionMatrixShown ==
    SuccessShown /\ HasKey(results.metrics, "confusion_matrix")

\* accuracy.replace('%', ''): a string pattern replaces its first occurrence.
ReplaceFirst(text, c) ==
    IF \A i \in 1..Len(text) : text[i] # c THEN text
    ELSE LET at == CHOOSE i \in 1..Len(text) :
                     text[i] = c /\ \A j \in 1..(i - 1) : text[j] # c
         IN SubSeq(text, 1, at - 1) \o SubSeq(text, at + 1, Len(text))

\* The number of digits of text from position i on
DigitRun(text, i) ==
    CHOOSE k \in 0..(Len(text) + 1 - i) :
        /\ \A j \in i..(i + k - 1) : IsDigit(text[j])
        /\ i + k > Len(text) \/ ~IsDigit(text[i + k])

RECURSIVE DigitsValue(_, _, _)
\* The k digits of text from position i on, read as a decimal numeral
DigitsValue(text, i, k) ==
    IF k = 0 THEN 0
    ELSE DigitsValue(text, i, k - 1) * 10 + DigitValue(text[i + k - 1])

RECURSIVE Pow10(_)
Pow10(k) == IF k = 0 THEN 1 ELSE 10 * Pow10(k - 1)

NaN == [nan |-> TRUE, num |-> 0, den |-> 1]

\* parseFloat: leading white space is skipped, then the longest prefix that
\* is a decimal literal (sign, digits, point, digits) is read and the rest is
\* ignored; NaN when no digit is found.  The number is num / den.  Exponents
\* and "Infinity" are left out: no string explored holds an "e" or an "I"
\* after its sign.
ParseFloat(text) ==
    LET start == CHOOSE i \in 1..(Len(text) + 1) :
                     /\ \A j \in 1..(i - 1) : text[j] = " "
                     /\ i > Len(text) \/ text[i] # " "
        signed == start <= Len(text) /\ text[start] \in {"+", "-"}
        first == IF signed THEN start + 1 ELSE start
        intLen == DigitRun(text, first)
        point == first + intLen <= Len(text) /\ text[first + intLen] = "."
        fracLen == IF point THEN DigitRun(text, first + intLen + 1) ELSE 0
        magnitude == DigitsValue(text, first, intLen) * Pow10(fracLen)
                       + DigitsValue(text, first + intLen + 1, fracLen)
    IN IF intLen = 0 /\ fracLen = 0 THEN NaN
       ELSE [nan |-> FALSE,
             num |-> IF signed /\ text[start] = "-" THEN 0 - magnitude
                     ELSE magnitude,
             den |-> Pow10(fracLen)]

\* Mutant: the thresholds compared with > instead of >=.
Above(accVal, n) == ~accVal.nan /\ accVal.num > n * accVal.den

\* accVal >= n, false for NaN.  The thresholds are integers, so rounding the
\* decimal to the nearest double cannot carry it across one.
AtLeast(accVal, n) == ~accVal.nan /\ accVal.num >= n * accVal.den

ExcellentFrom == 90     \* if (accVal >= 90)
GoodFrom == 70          \* else if (accVal >= 70)

\* ResultExplanation: the parsed accuracy, the grade and the colour
ResultExplanation(accuracy) ==
    LET accVal == ParseFloat(ReplaceFirst(accuracy, "%"))
    IN CASE AtLeast(accVal, ExcellentFrom) ->
              [accVal |-> accVal, grade |-> "Excellent", color |-> "#28a745"]
         [] AtLeast(accVal, GoodFrom) /\ ~AtLeast(accVal, ExcellentFrom) ->
              [accVal |-> accVal, grade |-> "Good", color |-> "#ffc107"]
         [] OTHER ->
              [accVal |-> accVal, grade |-> "Needs Improvement",
               color |-> "#dc3545"]

\* {results.metrics.Accuracy && <ResultExplanation .../>}: a non-empty string
ExplanationShown ==
    /\ SuccessShown
    /\ HasKey(results.metrics, "Accuracy")
    /\ results.metrics.Accuracy # <<>>

\* Mutant: slice(0, end) taken as if end were the last index kept, counted
\* from zero.
SliceFromStartInclusive(list, end) == SubSeq(list, 1, Min(Len(list), end + 1))

\* Array.prototype.slice(0, end) of a list
SliceFromStart(list, end) == SubSeq(list, 1, Min(Len(list), end))

RECURSIVE MaxImportance(_)
\* Math.max(...list.map(f => f.importance)); -Infinity is modelled as -1
MaxImportance(list) ==
    IF list = <<>> THEN -1
    ELSE LET rest == MaxImportance(Tail(list))
         IN  IF Head(list).importance > rest THEN Head(list).importance ELSE rest

\* The rows of the feature-importance chart
DisplayedFeatures(list) == SliceFromStart(list, DisplayLimit)

\* The bars of the chart: each displayed item with the value its width is
\* scaled by.
FeatureBars(list) ==
    [i \in 1..Len(DisplayedFeatures(list)) |->
        [feature |-> DisplayedFeatures(list)[i].feature,
         importance |-> DisplayedFeatures(list)[i].importance,
         maxVal |-> MaxImportance(list)]]

RECURSIVE Flat(_)
\* Array.prototype.flat() of a matrix
Flat(matrix) ==
    IF matrix = <<>> THEN <<>> ELSE Head(matrix) \o Flat(Tail(matrix))

\* {datasetMetadata.correlations && (...)}
HeatmapShown == ChangeShown /\ datasetMetadata.correlations # None

\* Mutant: the notice starts at the limit itself (>= for >).
TooManyFeaturesAtLimit(correlations) == Len(correlations.labels) >= HeatmapLimit

\* labels.length > 8 ? notice : cells
TooManyFeatures(correlations) == Len(correlations.labels) > HeatmapLimit

\* What the heatmap card shows: the notice, or the grid of cells.
HeatmapView(correlations) ==
    IF TooManyFeatures(correlations)
    THEN [notice |-> TRUE, grid |-> None]
    ELSE [notice |-> FALSE, grid |-> Some(Flat(correlations.data))]

(***************************************************************************)
(* The handlers.                                                           *)
(***************************************************************************)
\* { id: Math.random()..., type, params: { ...defaultParams } }
NewStep(id, type) == [id |-> id, type |-> type, params |-> DefaultParams(type)]

\* { id: 'split', type: 'train_test_split', params: { test_size: testSize } }
SplitStep == [id |-> "split", type |-> "train_test_split",
              params |-> [test_size |-> testSize]]

\* Mutant: the split step is appended after the model step.
FullStepsSplitLast == preprocessingSteps \o <<selectedModel, SplitStep>>

\* [...preprocessingSteps, split, selectedModel]
FullSteps == preprocessingSteps \o <<SplitStep, selectedModel>>

\* datasetMetadata?.filename || 'Unknown'
DatasetName ==
    IF datasetMetadata # Null /\ datasetMetadata.filename # ""
    THEN datasetMetadata.filename ELSE "Unknown"

\* The JSON body of the run request
RunRequestBody == [datasetName |-> DatasetName, steps |-> FullSteps]

\* The error runPipeline catches for an answer, None when it catches none.
RunError(answer) ==
    CASE answer.kind = "rejected" -> Some(FetchRejectedMessage)
      [] ~answer.ok -> Some(ServerStatusMessage(answer.status))
      [] answer.body = None -> Some(JsonRejectedMessage)
      [] OTHER -> None

\* Mutant: the catch clause logs a fixed line and drops error.message.
FailureResultNoReason(message) ==
    [success |-> FALSE, message |-> "Failed to execute pipeline",
     metrics |-> NoMetrics, logs |-> <<"Error">>, model_path |-> None]

\* The result the catch clause stores
FailureResult(message) ==
    [success |-> FALSE, message |-> "Failed to execute pipeline",
     metrics |-> NoMetrics, logs |-> <<ErrorLogLine(message)>>,
     model_path |-> None]

\* What setResults receives once the request has settled
RunOutcome(answer) ==
    IF RunError(answer) = None THEN answer.body[1]
    ELSE FailureResult(RunError(answer)[1])

\* The message handleFileChange catches for an answer, None when none.
UploadFailure(answer) ==
    CASE answer.kind = "rejected" -> Some(FetchRejectedMessage)
      [] answer.body = None -> Some(JsonRejectedMessage)
      [] ~answer.ok ->
            IF TruthyString(answer.body[1].detail)
            THEN answer.body[1].detail ELSE Some("Upload failed")
      [] OTHER -> None

RemoveAt(list, i) == SubSeq(list, 1, i - 1) \o SubSeq(list, i + 1, Len(list))

\* preprocessingSteps.filter((s) => s.id !== id)
FilterOutId(list, id) == SelectSeq(list, LAMBDA st : st.id # id)

Init ==
    /\ currentStep = 1
    /\ preprocessingSteps = <<>>
    /\ testSize = DefaultTestSize
    /\ selectedModel = Null
    /\ isRunning = FALSE
    /\ results = Null
    /\ datasetMetadata = Null
    /\ uploadError = None
    /\ isUploading = FALSE
    /\ uploads = <<>>
    /\ runs = <<>>
    /\ downloads = <<>>
    /\ sliderMoved = FALSE

\* Mutant: handleFileChange without setUploadError(null).
HandleFileChangeKeepsError ==
    /\ UploadZoneActive
    /\ \E file \in {None} \cup {Some(f) : f \in Files} :
        IF file = None
        THEN UNCHANGED vars
        ELSE /\ isUploading' = TRUE
             /\ uploads' = Append(uploads, [file |-> file[1], answer |-> Pending])
             /\ UNCHANGED <<currentStep, preprocessingSteps, testSize,
                            selectedModel, isRunning, results, datasetMetadata,
                            uploadError, runs, downloads, sliderMoved>>

\* handleFileChange up to its await: the file dialog closes with a file or
\* without one.
HandleFileChange ==
    /\ UploadZoneActive
    /\ \E file \in {None} \cup {Some(f) : f \in Files} :
        IF file = None
        THEN UNCHANGED vars
        ELSE /\ isUploading' = TRUE
             /\ uploadError' = None
             /\ uploads' = Append(uploads, [file |-> file[1], answer |-> Pending])
             /\ UNCHANGED <<currentStep, preprocessingSteps, testSize,
                            selectedModel, isRunning, results, datasetMetadata,
                            runs, downloads, sliderMoved>>

\* The server or the network answers an upload.
UploadAnswer ==
    \E i \in 1..Len(uploads) : \E a \in UploadAnswers :
        /\ uploads[i].answer = Pending
        /\ uploads' = [uploads EXCEPT ![i].answer = a]
        /\ UNCHANGED <<currentStep, preprocessingSteps, testSize, selectedModel,
                       isRunning, results, datasetMetadata, uploadError,
                       isUploading, runs, downloads, sliderMoved>>

\* handleFileChange after its await: try, catch and finally.
UploadSettle ==
    \E i \in 1..Len(uploads) :
        /\ uploads[i].answer # Pending
        /\ IF UploadFailure(uploads[i].answer) = None
           THEN /\ datasetMetadata' = uploads[i].answer.body[1]
                /\ UNCHANGED uploadError
           ELSE /\ uploadError' = UploadFailure(uploads[i].answer)
                /\ datasetMetadata' = Null
        /\ isUploading' = FALSE
        /\ uploads' = RemoveAt(uploads, i)
        /\ UNCHANGED <<currentStep, preprocessingSteps, testSize, selectedModel,
                       isRunning, results, runs, downloads, sliderMoved>>

\* Mutant: Change resets the whole wizard, the held result and the test
\* size included.
ChangeDatasetResetsAll ==
    /\ ChangeShown
    /\ datasetMetadata' = Null
    /\ preprocessingSteps' = <<>>
    /\ selectedModel' = Null
    /\ results' = Null
    /\ testSize' = DefaultTestSize
    /\ UNCHANGED <<currentStep, isRunning, uploadError, isUploading, uploads,
                   runs, downloads, sliderMoved>>

\* The Change button of the data step
ChangeDataset ==
    /\ ChangeShown
    /\ datasetMetadata' = Null
    /\ preprocessingSteps' = <<>>
    /\ selectedModel' = Null
    /\ UNCHANGED <<currentStep, testSize, isRunning, results, uploadError,
                   isUploading, uploads, runs, downloads, sliderMoved>>

\* handleNext up to the await inside runPipeline; on the steps before the
\* fourth, the whole of handleNext.
HandleNext ==
    /\ NextShown
    /\ ~NextDisabled
    /\ IF currentStep = 4 /\ selectedModel # Null
       THEN /\ isRunning' = TRUE
            /\ results' = Null
            /\ runs' = Append(runs, [body |-> RunRequestBody,
                                     step |-> currentStep, answer |-> Pending])
            /\ UNCHANGED currentStep
       ELSE /\ currentStep' =
                IF currentStep < WizardStepCount THEN currentStep + 1
                ELSE currentStep
            /\ UNCHANGED <<isRunning, results, runs>>
    /\ UNCHANGED <<preprocessingSteps, testSize, selectedModel, datasetMetadata,
                   uploadError, isUploading, uploads, downloads, sliderMoved>>

\* The server or the network answers a run request.
RunAnswer ==
    \E i \in 1..Len(runs) : \E a \in RunAnswers :
        /\ runs[i].answer = Pending
        /\ runs' = [runs EXCEPT ![i].answer = a]
        /\ UNCHANGED <<currentStep, preprocessingSteps, testSize, selectedModel,
                       isRunning, results, datasetMetadata, uploadError,
                       isUploading, uploads, downloads, sliderMoved>>

\* Mutant: handleNext does not await runPipeline, so its setCurrentStep has
\* run before the request settles and the continuation leaves the step alone.
RunSettleNoAdvance ==
    \E i \in 1..Len(runs) :
        /\ runs[i].answer # Pending
        /\ results' = RunOutcome(runs[i].answer)
        /\ isRunning' = FALSE
        /\ runs' = RemoveAt(runs, i)
        /\ UNCHANGED <<currentStep, preprocessingSteps, testSize, selectedModel,
                       datasetMetadata, uploadError, isUploading, uploads,
                       downloads, sliderMoved>>

\* Mutant: setIsRunning(false) ends the try block instead of sitting in a
\* finally clause, so a caught error leaves isRunning set.
RunSettleNoFinally ==
    \E i \in 1..Len(runs) :
        /\ runs[i].answer # Pending
        /\ results' = RunOutcome(runs[i].answer)
        /\ isRunning' = (RunError(runs[i].answer) # None)
        /\ currentStep' =
            IF runs[i].step < WizardStepCount THEN runs[i].step + 1
            ELSE currentStep
        /\ runs' = RemoveAt(runs, i)
        /\ UNCHANGED <<preprocessingSteps, testSize, selectedModel,
                       datasetMetadata, uploadError, isUploading, uploads,
                       downloads, sliderMoved>>

\* runPipeline after its await (try, catch, finally), then the rest of the
\* handleNext that awaited it, with the currentStep that handleNext closed
\* over.
RunSettle ==
    \E i \in 1..Len(runs) :
        /\ runs[i].answer # Pending
        /\ results' = RunOutcome(runs[i].answer)
        /\ isRunning' = FALSE
        /\ currentStep' =
            IF runs[i].step < WizardStepCount THEN runs[i].step + 1
            ELSE currentStep
        /\ runs' = RemoveAt(runs, i)
        /\ UNCHANGED <<preprocessingSteps, testSize, selectedModel,
                       datasetMetadata, uploadError, isUploading, uploads,
                       downloads, sliderMoved>>

\* handleBack
HandleBack ==
    /\ ~BackDisabled
    /\ currentStep' = IF currentStep > 1 THEN currentStep - 1 ELSE currentStep
    /\ UNCHANGED <<preprocessingSteps, testSize, selectedModel, isRunning,
                   results, datasetMetadata, uploadError, isUploading, uploads,
                   runs, downloads, sliderMoved>>

\* The Start Over button
StartOver ==
    /\ StartOverShown
    /\ currentStep' = 1
    /\ UNCHANGED <<preprocessingSteps, testSize, selectedModel, isRunning,
                   results, datasetMetadata, uploadError, isUploading, uploads,
                   runs, downloads, sliderMoved>>

\* addPreprocessingStep, from one of the three add buttons of step 2
AddPreprocessingStep ==
    /\ currentStep = 2
    /\ Len(preprocessingSteps) < MaxSteps
    /\ \E type \in PreprocessingTypes : \E id \in RandomIds :
        preprocessingSteps' = Append(preprocessingSteps, NewStep(id, type))
    /\ UNCHANGED <<currentStep, testSize, selectedModel, isRunning, results,
                   datasetMetadata, uploadError, isUploading, uploads, runs,
                   downloads, sliderMoved>>

\* removePreprocessingStep, from the remove button of a listed step
RemovePreprocessingStep ==
    /\ currentStep = 2
    /\ \E i \in 1..Len(preprocessingSteps) :
        preprocessingSteps' =
            FilterOutId(preprocessingSteps, preprocessingSteps[i].id)
    /\ UNCHANGED <<currentStep, testSize, selectedModel, isRunning, results,
                   datasetMetadata, uploadError, isUploading, uploads, runs,
                   downloads, sliderMoved>>

\* The test-size slider: setTestSize(parseFloat(e.target.value)); onChange
\* fires when the value changes.
SetTestSize ==
    /\ currentStep = 3
    /\ \E v \in SliderValues \ {testSize} : testSize' = v
    /\ sliderMoved' = TRUE
    /\ UNCHANGED <<currentStep, preprocessingSteps, selectedModel, isRunning,
                   results, datasetMetadata, uploadError, isUploading, uploads,
                   runs, downloads>>

\* selectModel, from one of the two model cards of step 4
SelectModel ==
    /\ currentStep = 4
    /\ \E type \in ModelTypes :
        selectedModel' = [id |-> "model-step", type |-> type,
                          params |-> DefaultParams(type)]
    /\ UNCHANGED <<currentStep, preprocessingSteps, testSize, isRunning,
                   results, datasetMetadata, uploadError, isUploading, uploads,
                   runs, downloads, sliderMoved>>

\* downloadModel, from the download button of the results step
DownloadModel ==
    /\ DownloadShown
    /\ Len(downloads) < MaxDownloads
    /\ downloads' =
        IF results # Null /\ TruthyString(results.model_path)
        THEN Append(downloads, results.model_path[1]) ELSE downloads
    /\ UNCHANGED <<currentStep, preprocessingSteps, testSize, selectedModel,
                   isRunning, results, datasetMetadata, uploadError,
                   isUploading, uploads, runs, sliderMoved>>

\* The server answers a download window.
DownloadServe ==
    /\ downloads # <<>>
    /\ downloads' = Tail(downloads)
    /\ UNCHANGED <<currentStep, preprocessingSteps, testSize, selectedModel,
                   isRunning, results, datasetMetadata, uploadError,
                   isUploading, uploads, runs, sliderMoved>>

Next ==
    \/ HandleFileChange
    \/ UploadAnswer
    \/ UploadSettle
    \/ ChangeDataset
    \/ HandleNext
    \/ RunAnswer
    \/ RunSettle
    \/ HandleBack
    \/ StartOver
    \/ AddPreprocessingStep
    \/ RemovePreprocessingStep
    \/ SetTestSize
    \/ SelectModel
    \/ DownloadModel
    \/ DownloadServe

Spec == Init /\ [][Next]_vars

\* Every request in flight settles, and the event loop runs the continuation
\* of a settled request.
FairSpec == Spec /\ WF_vars(RunAnswer) /\ WF_vars(RunSettle)

(***************************************************************************)
(* The results step over the accuracy strings a response may carry: the    *)
(* wizard waits on step 4 for a run whose response has arrived, and the    *)
(* continuation stores it and shows the results step.                      *)
(***************************************************************************)
RECURSIVE Numeral(_)
\* The decimal numeral of a natural number
Numeral(n) ==
    IF n < 10 THEN <<DigitChars[n + 1]>>
    ELSE Numeral(n \div 10) \o <<DigitChars[(n % 10) + 1]>>

\* Percentages in tenths, 0.0 to 100.0
PercentTenths == 0..1000

\* The number of decimals a percentage is written with
PercentDecimals == 0..2

\* tenths written with the given number of decimals and a percent sign
PercentString(tenths, decimals) ==
    Numeral(tenths \div 10)
        \o (CASE decimals = 0 -> <<>>
              [] decimals = 1 -> <<".">> \o Numeral(tenths % 10)
              [] OTHER -> <<".">> \o Numeral(tenths % 10) \o <<"0">>)
        \o <<"%">>

\* The strings 'p%' with 0 <= p <= 100, each with the p it writes
PercentForms ==
    {[tenths |-> t, text |-> PercentString(t, d)] :
        t \in PercentTenths, d \in PercentDecimals} \ 
    {[tenths |-> t, text |-> PercentString(t, 0)] :
        t \in {u \in PercentTenths : u % 10 # 0}}

\* Other strings a server may send as metrics.Accuracy
OtherAccuracies ==
    {<<>>, <<"N", "/", "A">>, <<"1", "0", "5", ".", "0", "%">>,
     <<"-", "5", "%">>, <<" ", "9", "0", "%">>, <<"%", "9", "0", "%">>,
     <<".", "5", "%">>, <<"%">>}

AccuracyStrings == {f.text : f \in PercentForms} \cup OtherAccuracies

GradedBody(accuracy) ==
    [success |-> TRUE, message |-> "Pipeline executed successfully",
     metrics |-> [Accuracy |-> accuracy], logs |-> <<"Training completed">>,
     model_path |-> None]

GradeInit ==
    /\ currentStep = 4
    /\ preprocessingSteps = <<>>
    /\ testSize = DefaultTestSize
    /\ selectedModel = [id |-> "model-step", type |-> "logistic_regression",
                        params |-> DefaultParams("logistic_regression")]
    /\ isRunning = TRUE
    /\ results = Null
    /\ datasetMetadata = [filename |-> "iris.csv", correlations |-> None]
    /\ uploadError = None
    /\ isUploading = FALSE
    /\ uploads = <<>>
    /\ \E accuracy \in AccuracyStrings :
          runs = <<[body |-> RunRequestBody, step |-> 4,
                    answer |-> [kind |-> "response", ok |-> TRUE,
                                status |-> 200,
                                body |-> Some(GradedBody(accuracy))]]>>
    /\ downloads = <<>>
    /\ sliderMoved = FALSE

GradeNext ==
    \/ RunSettle
    \/ HandleBack
    \/ StartOver

GradeSpec == GradeInit /\ [][GradeNext]_vars

(***************************************************************************)
(* Properties.                                                             *)
(***************************************************************************)
Last(list) == list[Len(list)]

\* A step list of zero or more preprocessing steps, then one split step,
\* then one model step.
WellFormedSteps(steps) ==
    /\ Len(steps) >= 2
    /\ steps[Len(steps)] # Null
    /\ steps[Len(steps)].type \in ModelTypes
    /\ steps[Len(steps) - 1].type = "train_test_split"
    /\ \A i \in 1..(Len(steps) - 2) : steps[i].type \in PreprocessingTypes

\* A step of the wizard issues a run request.
RunIssued == Len(runs') = Len(runs) + 1

\* C1: every run request carries zero or more preprocessing steps, then
\* exactly one train_test_split step, then exactly one model step as its
\* last element, and no request is issued while no model is selected.
C1_RunRequestShape ==
    /\ [](\A i \in 1..Len(runs) : WellFormedSteps(runs[i].body.steps))
    /\ [][RunIssued =>
            /\ selectedModel # Null
            /\ WellFormedSteps(Last(runs').body.steps)
            /\ Last(Last(runs').body.steps) = selectedModel]_vars

C1_Witness ==
    \E i \in 1..Len(runs) :
        /\ Len(runs[i].body.steps) = 4
        /\ runs[i].body.steps[1].type = "drop_nulls"
        /\ runs[i].body.steps[4].type = "decision_tree_classifier"

\* The request fails: the fetch rejects or the response status is not ok.
RequestFailed(answer) == answer.kind = "rejected" \/ ~answer.ok

\* The cause of a failed request, as the error message names it.
FailureReason(answer) ==
    IF answer.kind = "rejected" THEN "Failed to fetch"
    ELSE IF answer.status = 500 THEN "Server status: 500" ELSE "Server status: ?"

\* The continuation of the i-th run request in flight has run.
RunSettled(i) == runs[i].answer # Pending /\ runs' = RemoveAt(runs, i)

\* C2: when a run request fails, runPipeline stores a result with success
\* false, a non-empty message, empty metrics, no model_path and non-empty
\* logs whose last line records the failure reason; isRunning is false
\* afterwards, and the results step shows the message and the logs.
C2_FailedRunResult ==
    [][\A i \in 1..Len(runs) :
        (RunSettled(i) /\ RequestFailed(runs[i].answer)) =>
            /\ results' # Null
            /\ results'.success = FALSE
            /\ results'.message # ""
            /\ DOMAIN results'.metrics = {}
            /\ results'.model_path = None
            /\ Len(results'.logs) > 0
            /\ Last(results'.logs) = ErrorLogLine(FailureReason(runs[i].answer))
            /\ isRunning' = FALSE
            /\ FailureMessageShown'
            /\ LogsShown' = results'.logs]_vars

C2_Witness ==
    /\ FailureMessageShown
    /\ results.message = "Failed to execute pipeline"
    /\ results.logs = <<"Error: Server status: 500">>

\* C3: a download request is issued only with the model_path of the result
\* the wizard holds, and only when that result is a success; none is issued
\* while results is null, is a failure, or has no model_path.
C3_DownloadOnlyHeldArtifact ==
    [][Len(downloads') > Len(downloads) =>
        /\ results # Null
        /\ results.success
        /\ results.model_path # None
        /\ downloads' = Append(downloads, results.model_path[1])
        /\ results' = results]_vars

C3_Witness ==
    /\ downloads = <<"models/model_1.pkl">>
    /\ results # Null
    /\ results.model_path = Some("models/model_1.pkl")

\* The continuation of the i-th upload in flight has run.
UploadSettled(i) == uploads[i].answer # Pending /\ uploads' = RemoveAt(uploads, i)

\* An upload succeeded: an ok response whose body is the dataset metadata.
UploadSucceeded(answer) ==
    answer.kind = "response" /\ answer.ok /\ answer.body # None

\* C4: every upload ends in one of two outcomes: on an ok response
\* datasetMetadata is the response and uploadError is null; on any failure
\* datasetMetadata is null and uploadError is not null.  isUploading is false
\* afterwards, and datasetMetadata and uploadError are never both non-null.
C4_UploadOutcome ==
    /\ [](~(datasetMetadata # Null /\ uploadError # None))
    /\ [][\A i \in 1..Len(uploads) : UploadSettled(i) =>
            /\ isUploading' = FALSE
            /\ IF UploadSucceeded(uploads[i].answer)
               THEN /\ datasetMetadata' = uploads[i].answer.body[1]
                    /\ uploadError' = None
               ELSE /\ datasetMetadata' = Null
                    /\ uploadError' # None]_vars

C4_Witness ==
    /\ uploadError = Some("Unsupported file format")
    /\ datasetMetadata = Null
    /\ ~isUploading
    /\ uploads = <<>>

\* The preprocessing list changes while the preprocessing step is shown:
\* a step has been added or removed.
StepsEdited == currentStep = 2 /\ preprocessingSteps' # preprocessingSteps

\* C5: step order is preserved exactly: an addition appends one step, a
\* removal deletes one step and leaves the others and their order unchanged,
\* and the preprocessing prefix of every run request is the list, in order.
C5_StepOrderPreserved ==
    /\ [](\A i \in 1..Len(runs) :
            SubSeq(runs[i].body.steps, 1, Len(runs[i].body.steps) - 2)
                = preprocessingSteps)
    /\ [][StepsEdited =>
            \/ /\ Len(preprocessingSteps') = Len(preprocessingSteps) + 1
               /\ SubSeq(preprocessingSteps', 1, Len(preprocessingSteps))
                    = preprocessingSteps
            \/ \E i \in 1..Len(preprocessingSteps) :
                    preprocessingSteps' = RemoveAt(preprocessingSteps, i)]_vars

\* C6: every step of every run request carries parameters within the
\* declared constraints: test_size strictly between 0 and 1, and 0.2 when
\* the slider was never moved; C = 1.0; max_depth = 5; feature_range "0,1".
C6_RequestParams ==
    \A i \in 1..Len(runs) : \A k \in 1..Len(runs[i].body.steps) :
        LET st == runs[i].body.steps[k] IN
        /\ st.type = "train_test_split" =>
            /\ st.params.test_size > 0
            /\ st.params.test_size < 100
            /\ ~sliderMoved => st.params.test_size = 20
        /\ st.type = "logistic_regression" => st.params.C = 100
        /\ st.type = "decision_tree_classifier" => st.params.max_depth = 5
        /\ st.type = "min_max_scaler" => st.params.feature_range = "0,1"

C6_Witness ==
    \E i \in 1..Len(runs) :
        /\ sliderMoved
        /\ Len(runs[i].body.steps) = 3
        /\ runs[i].body.steps[1].type = "min_max_scaler"
        /\ runs[i].body.steps[2].params.test_size = 90
        /\ runs[i].body.steps[3].type = "logistic_regression"

\* The result a settled request yields: the server's response, or the
\* failure the client synthesizes.
IsOutcomeOf(result, answer) ==
    IF answer.kind = "response" /\ answer.ok /\ answer.body # None
    THEN result = answer.body[1]
    ELSE /\ result.success = FALSE
         /\ result.message = "Failed to execute pipeline"

\* C7: the wizard never uses a stale result: results is reset to null when
\* a run starts, and on the results step the held result is non-null and is
\* the outcome of the most recently issued run request.
C7_NoStaleResult ==
    /\ [](currentStep = 5 => (results # Null /\ runs = <<>>))
    /\ [][RunIssued => results' = Null]_vars
    /\ [][(results' # results /\ results' # Null) =>
            /\ runs # <<>>
            /\ Last(runs).answer # Pending
            /\ IsOutcomeOf(results', Last(runs).answer)
            /\ runs' = <<>>]_vars

C7_Witness ==
    /\ currentStep = 5
    /\ results # Null
    /\ results.success
    /\ selectedModel.type = "decision_tree_classifier"
    /\ Len(preprocessingSteps) = 2

\* The Run Training button can be pressed and issues a request.
CanIssueRun == ENABLED (HandleNext /\ RunIssued)

\* From the model step a run can be issued, after selecting a model if none
\* is selected.
FromModelStep ==
    /\ currentStep = 4
    /\ CanIssueRun \/ ENABLED (SelectModel /\ CanIssueRun')

FromSplitStep == currentStep = 3 /\ ENABLED (HandleNext /\ FromModelStep')

FromPreprocessingStep == currentStep = 2 /\ ENABLED (HandleNext /\ FromSplitStep')

FromLoadedData ==
    /\ currentStep = 1
    /\ datasetMetadata # Null
    /\ ENABLED (HandleNext /\ FromPreprocessingStep')

\* From the data step without a dataset, an upload that the server accepts
\* loads one; an upload that already failed in flight is settled first.
FromAnsweredUpload == ENABLED (UploadSettle /\ FromLoadedData')

FromPendingUpload == ENABLED (UploadAnswer /\ FromAnsweredUpload')

FromEmptyData ==
    /\ currentStep = 1
    /\ datasetMetadata = Null
    /\ uploads = <<>>
    /\ ENABLED (HandleFileChange /\ FromPendingUpload')

FromFailedUpload == ENABLED (UploadSettle /\ FromEmptyData')

FromResultsStep == currentStep = 5 /\ ENABLED (HandleBack /\ FromModelStep')

\* Some sequence of user actions (and, with no dataset loaded, an accepted
\* upload) leads to a new run request.
CanRunAgain ==
    \/ FromResultsStep
    \/ FromModelStep
    \/ FromSplitStep
    \/ FromPreprocessingStep
    \/ FromLoadedData
    \/ FromEmptyData
    \/ FromPendingUpload
    \/ FromAnsweredUpload
    \/ FromFailedUpload

\* Going back from the results step, the user can choose another model, go
\* back and move the slider, go back and add or remove a step, each time
\* with a way forward to a new run request.
CanChangeModel ==
    ENABLED (SelectModel /\ selectedModel' # selectedModel /\ FromModelStep')

CanChangeTestSize == ENABLED (SetTestSize /\ FromSplitStep')

CanChangeSteps ==
    \/ ENABLED (AddPreprocessingStep /\ FromPreprocessingStep')
    \/ ENABLED (RemovePreprocessingStep /\ FromPreprocessingStep')

CanGoBackAndResubmit ==
    ENABLED (HandleBack /\
        (/\ FromModelStep
         /\ CanChangeModel
         /\ ENABLED (HandleBack /\
                (/\ CanChangeTestSize
                 /\ ENABLED (HandleBack /\ CanChangeSteps'))'))')

HoldsFailure == results # Null /\ ~results.success

\* C8: a failed run is always recoverable by resubmitting: from any state
\* where the wizard holds a failed result a new run request can be reached,
\* and on the results step the user can go back, change the model, the test
\* size or the preprocessing steps, and issue a new run request.
C8_FailureRecoverable ==
    HoldsFailure =>
        /\ CanRunAgain
        /\ currentStep = 5 => CanGoBackAndResubmit

C8_Witness ==
    /\ currentStep = 5
    /\ HoldsFailure
    /\ results.logs = <<"Error: Failed to fetch">>
    /\ CanGoBackAndResubmit

\* The result a run request's continuation stores is the whole response.
StoresWholeResponse(i) ==
    (RunSettled(i) /\ runs[i].answer.ok /\ runs[i].answer.body # None) =>
        results' = runs[i].answer.body[1]

\* C9: for a successful result whose feature_importance list has n items,
\* the results step displays the first min(n, 10) items in the order
\* received; the held list stays complete, and the bar widths are scaled by
\* the maximum over the whole list.
C9_FeatureImportanceTop10 ==
    /\ [](FeatureImportanceShown =>
            LET list == results.metrics.feature_importance
                bars == FeatureBars(list)
            IN  /\ Len(bars) = IF Len(list) < 10 THEN Len(list) ELSE 10
                /\ \A i \in 1..Len(bars) :
                    /\ bars[i].feature = list[i].feature
                    /\ bars[i].importance = list[i].importance
                    /\ \A k \in 1..Len(list) : bars[i].maxVal >= list[k].importance
                    /\ \E k \in 1..Len(list) : bars[i].maxVal = list[k].importance)
    /\ [][\A i \in 1..Len(runs) : StoresWholeResponse(i)]_vars
    /\ [][(results # Null /\ results' # results) => runs' # runs]_vars

C9_Witness ==
    /\ FeatureImportanceShown
    /\ Len(results.metrics.feature_importance) = 11
    /\ Len(FeatureBars(results.metrics.feature_importance)) = 10
    /\ FeatureBars(results.metrics.feature_importance)[1].maxVal = 99

\* C10: when the dataset metadata carries correlations, the heatmap cells
\* are rendered if and only if there are at most 8 labels; with more than 8
\* the matrix is held but not rendered and the notice is shown instead.
C10_HeatmapLimit ==
    HeatmapShown =>
        LET held == datasetMetadata.correlations[1]
            view == HeatmapView(held)
        IN  /\ view.grid # None <=> Len(held.labels) <= 8
            /\ view.notice <=> view.grid = None
            /\ view.grid # None =>
                Len(view.grid[1]) = Len(held.labels) * Len(held.labels)
            /\ Len(held.labels) > 8 => Len(held.data) = Len(held.labels)

C10_Witness ==
    /\ HeatmapShown
    /\ Len(datasetMetadata.correlations[1].labels) = 9
    /\ HeatmapView(datasetMetadata.correlations[1]).notice

\* The wizard holds a successful result and is not waiting for another.
HoldsSuccess == currentStep = 5 /\ ~isRunning /\ results # Null /\ results.success

\* The continuation of the i-th run request stores a successful response.
SuccessStored(i) ==
    /\ RunSettled(i)
    /\ runs[i].answer.kind = "response"
    /\ runs[i].answer.ok
    /\ runs[i].answer.body # None
    /\ runs[i].answer.body[1].success

\* C11: a successful result that lacks feature_importance, confusion_matrix
\* or model_path is shown as a success with that section omitted: a missing
\* key never gives the failure display, nor an upload or run error state.
C11_MissingKeysAreEmptyState ==
    /\ [](HoldsSuccess =>
            /\ SuccessShown
            /\ ~FailureMessageShown
            /\ FeatureImportanceShown <=>
                "feature_importance" \in DOMAIN results.metrics
            /\ ConfusionMatrixShown <=>
                "confusion_matrix" \in DOMAIN results.metrics
            /\ results.model_path = None => ~DownloadShown)
    /\ [][\A i \in 1..Len(runs) : SuccessStored(i) =>
            /\ results' = runs[i].answer.body[1]
            /\ HoldsSuccess'
            /\ uploadError' = uploadError]_vars

C11_Witness ==
    /\ HoldsSuccess
    /\ SuccessShown
    /\ DOMAIN results.metrics = {"Accuracy"}
    /\ results.model_path = None

\* C12: every started run completes on the client once its request
\* settles: isRunning returns to false, results becomes non-null and the
\* wizard advances from step 4 to step 5.
C12_RunCompletes ==
    (isRunning /\ currentStep = 4)
        ~> (~isRunning /\ results # Null /\ currentStep = 5)

C12_Witness ==
    /\ ~isRunning
    /\ currentStep = 5
    /\ results # Null
    /\ results.logs = <<"Error: Unexpected end of JSON input">>
    /\ runs = <<>>

\* C13: at most one run request is in flight: while isRunning is true the
\* wizard stays on step 4 with Back and Next disabled, so no second run can
\* start, and isRunning is false whenever the wizard is on step 5.
C13_SingleRunInFlight ==
    /\ [](/\ Len(runs) <= 1
          /\ isRunning <=> runs # <<>>
          /\ isRunning =>
                /\ currentStep = 4
                /\ BackDisabled
                /\ NextDisabled
                /\ ~ENABLED HandleBack
                /\ ~ENABLED HandleNext
          /\ currentStep = 5 => ~isRunning)
    /\ [][isRunning => ~RunIssued]_vars

C13_Witness ==
    /\ isRunning
    /\ Len(runs) = 1
    /\ runs[1].answer # Pending
    /\ currentStep = 4
    /\ selectedModel # Last(runs[1].body.steps)

\* C14: on the results step the held result was produced by a request
\* whose step list is the step list of the current state (the current
\* preprocessingSteps, a split with the current testSize, the selected
\* model), and no action available while a run is in flight changes that
\* configuration.
C14_ResultMatchesConfiguration ==
    /\ [][\A i \in 1..Len(runs) :
            RunSettled(i) => runs[i].body.steps = FullSteps']_vars
    /\ [][(currentStep = 5 /\ currentStep' = 5) => FullSteps' = FullSteps]_vars
    /\ [][isRunning => FullSteps' = FullSteps]_vars

\* C15: currentStep is between 1 and 5, and beyond step 1 a dataset is
\* loaded; so every run request carries as datasetName the filename of the
\* metadata the last successful upload returned, and 'Unknown' is never sent
\* when that filename is non-empty.
C15_DatasetPresent ==
    /\ [](/\ currentStep \in 1..5
          /\ currentStep > 1 => datasetMetadata # Null
          /\ \A i \in 1..Len(runs) :
                /\ datasetMetadata # Null
                /\ datasetMetadata.filename # "" =>
                    /\ runs[i].body.datasetName = datasetMetadata.filename
                    /\ runs[i].body.datasetName # "Unknown"
                /\ datasetMetadata.filename = "" =>
                    runs[i].body.datasetName = "Unknown")
    /\ [][(datasetMetadata' # datasetMetadata /\ datasetMetadata' # Null) =>
            \E i \in 1..Len(uploads) :
                /\ UploadSettled(i)
                /\ UploadSucceeded(uploads[i].answer)
                /\ datasetMetadata' = uploads[i].answer.body[1]]_vars

C15_Witness ==
    /\ currentStep = 4
    /\ Len(runs) = 1
    /\ runs[1].body.datasetName = "iris.csv"
    /\ datasetMetadata.correlations = None
    /\ results = Null

\* The loaded dataset is dropped.
DatasetCleared == datasetMetadata # Null /\ datasetMetadata' = Null

\* C16: the Change action sets datasetMetadata to null, empties
\* preprocessingSteps and clears selectedModel, and leaves currentStep,
\* testSize, results, uploadError, isUploading and isRunning unchanged; it is
\* available only on step 1 while a dataset is loaded.
C16_ChangeFrame ==
    /\ [][DatasetCleared =>
            /\ currentStep = 1
            /\ preprocessingSteps' = <<>>
            /\ selectedModel' = Null
            /\ UNCHANGED <<currentStep, testSize, results, uploadError,
                           isUploading, isRunning>>]_vars
    /\ []((ENABLED ChangeDataset) <=> (currentStep = 1 /\ datasetMetadata # Null))

C16_Witness ==
    /\ currentStep = 1
    /\ datasetMetadata = Null
    /\ preprocessingSteps = <<>>
    /\ selectedModel = Null
    /\ results # Null
    /\ testSize = 90
    /\ uploads = <<>>
    /\ uploadError = None

\* The order of the grades, worst first
GradeRank(grade) ==
    CASE grade = "Needs Improvement" -> 0
      [] grade = "Good" -> 1
      [] grade = "Excellent" -> 2

\* The explanation of the accuracy the result on display carries
ShownExplanation == ResultExplanation(results.metrics.Accuracy)

\* C17: for every accuracy string of the form 'p%' with 0 <= p <= 100,
\* ResultExplanation parses it to p and assigns exactly one grade: Excellent
\* if and only if p >= 90, Good if and only if 70 <= p < 90, and Needs
\* Improvement otherwise; the grade never decreases as p increases.
C17_GradeOfPercentage ==
    ExplanationShown =>
        \A f \in PercentForms :
            f.text = results.metrics.Accuracy =>
                /\ ~ShownExplanation.accVal.nan
                /\ ShownExplanation.accVal.num * 10
                     = f.tenths * ShownExplanation.accVal.den
                /\ ShownExplanation.grade
                     \in {"Excellent", "Good", "Needs Improvement"}
                /\ ShownExplanation.grade = "Excellent" <=> f.tenths >= 900
                /\ ShownExplanation.grade = "Good"
                     <=> (f.tenths >= 700 /\ f.tenths < 900)
                /\ ShownExplanation.grade = "Needs Improvement"
                     <=> f.tenths < 700
                /\ \A d \in PercentDecimals :
                     f.tenths + 1 \in PercentTenths =>
                        GradeRank(ResultExplanation(
                            PercentString(f.tenths + 1, d)).grade)
                          >= GradeRank(ShownExplanation.grade)

C17_Witness ==
    /\ ExplanationShown
    /\ results.metrics.Accuracy = PercentString(900, 1)
    /\ ShownExplanation.grade = "Excellent"
    /\ ShownExplanation.accVal = [nan |-> FALSE, num |-> 900, den |-> 10]

====
